---- MODULE Spec2Model ----
(***************************************************************************)
(* libxmljs: the element/attribute wrappers over the libxml2 tree and the  *)
(* SAX push parser.                                                        *)
(*                                                                         *)
(* Native memory is a table of xmlNode records addressed by node id; a     *)
(* freed node keeps its record (st = "freed") so that an access through a  *)
(* dangling pointer is visible as an access to freed memory.  Attribute    *)
(* nodes live in their element's property list and are addressed by        *)
(* (element id, attribute name).  A wrapper is the JsObj/LibXmlObj pair    *)
(* that LIBXMLJS_GET_MAYBE_BUILD hangs on a node's _private slot.          *)
(***************************************************************************)
EXTENDS Integers, Sequences, FiniteSets, TLC

\* ------------------------------------------------------------- bounds
MaxNodes == 4
MaxWrappers == 3
MaxMapLen == 2
MaxIrregular == 1
MaxChunk == 3

NULL == 0

NodeIds == 1..MaxNodes
Names == {"a", "b"}
AttrNames == {"p", "q"}
AttrValues == {"1", "2"}
\* text() / constructor content arguments: empty, plain, an entity reference
Contents == {"", "x", "&amp;"}

VARIABLES
  nodes,         \* node id -> xmlNode record
  wrappers,      \* sequence of wrapper records, in creation order
  touchedFreed,  \* some operation has dereferenced a freed native node
  crashed,       \* an assert() has aborted the process
  irregular,     \* addChild calls so far that left the child in a second list
  ret,           \* the last host call and what it returned
  sax,           \* the SAX parsers: push session, engine context, events
  calls,         \* configure callbacks in progress, and the log of their calls
  document       \* the document: its native node, and a free in progress

vars == <<nodes, wrappers, touchedFreed, crashed, irregular, ret, sax, calls, document>>
treevars == <<nodes, wrappers, touchedFreed, crashed, irregular, ret, calls, document>>

\* ------------------------------------------------------ native records
EmptyNode ==
  [st |-> "unalloc", type |-> "element", name |-> "", content |-> "",
   parent |-> NULL, children |-> NULL, last |-> NULL, next |-> NULL,
   prev |-> NULL, props |-> <<>>, priv |-> NULL]

\* Freed memory: what a freed node held is lost.
FreedNode == [EmptyNode EXCEPT !.st = "freed"]

\* The world an operation works on: native nodes, wrappers, the two flags.
World(ns, ws, tf, cr) == [ns |-> ns, ws |-> ws, tf |-> tf, cr |-> cr]

Allocated(ns) == {n \in NodeIds : ns[n].st # "unalloc"}

\* malloc: node ids are handed out in order and never reused.
NewId(ns) == Cardinality(Allocated(ns)) + 1

\* A read or write of node n: touching a freed node is recorded.
Touch(W, n) == [W EXCEPT !.tf = W.tf \/ (n # NULL /\ W.ns[n].st = "freed")]

\* xmlStringGetNodeList: the text the parsed value yields.  "" stands for an
\* empty node list (NULL): the empty string, and an unterminated entity.
xmlStringGetNodeList(value) ==
  CASE value = "&amp;" -> "&"
    [] value = "&" -> ""
    [] OTHER -> value

\* ------------------------------------------------------------ registry
\* delete static_cast<JsObj*>(p); the wrapper object is gone.
DeleteWrapper(ws, w) ==
  IF w = NULL THEN ws ELSE [ws EXCEPT ![w].live = FALSE]

\* A notification that deletes the wrapper and leaves the slot as it is.
on_libxml_destruct_keep(W, n) ==
  [W EXCEPT !.ws = DeleteWrapper(W.ws, W.ns[n].priv)]

\* on_libxml_destruct, case XML_DOCUMENT_NODE, for the document record d:
\* returns <<document, wrappers>>.
on_libxml_destruct_doc(d, ws) ==
  << [d EXCEPT !.priv = NULL], DeleteWrapper(ws, d.priv) >>

\* on_libxml_destruct, default case, for an element or text node n.
on_libxml_destruct(W, n) ==
  [W EXCEPT !.ws = DeleteWrapper(W.ws, W.ns[n].priv),
            !.ns = [W.ns EXCEPT ![n].priv = NULL]]

\* on_libxml_destruct, default case, for the i-th attribute node of n.
on_libxml_destruct_attr(W, n, i) ==
  [W EXCEPT !.ws = DeleteWrapper(W.ws, W.ns[n].props[i].priv),
            !.ns = [W.ns EXCEPT ![n].props[i].priv = NULL]]

\* LIBXMLJS_GET_MAYBE_BUILD(Element, xmlNode, n): the wrapper registered in
\* n->_private, or a new one registered there.  Returns <<world, wrapper>>.
BuildElement(W, n) ==
  LET w == Len(W.ws) + 1 IN
  << [W EXCEPT !.ws = Append(W.ws, [kind |-> "Element", ptr |-> n,
                                    attr |-> "", live |-> TRUE]),
               !.ns = [W.ns EXCEPT ![n].priv = w]], w >>

GetMaybeBuildElement(W, n) ==
  IF W.ns[n].priv # NULL THEN << Touch(W, n), W.ns[n].priv >>
  ELSE BuildElement(Touch(W, n), n)

\* LIBXMLJS_GET_MAYBE_BUILD(Attribute, xmlAttr, attr) for attribute i of n.
BuildAttribute(W, n, i) ==
  LET w == Len(W.ws) + 1 IN
  << [W EXCEPT !.ws = Append(W.ws, [kind |-> "Attribute", ptr |-> n,
                                    attr |-> W.ns[n].props[i].name,
                                    live |-> TRUE]),
               !.ns = [W.ns EXCEPT ![n].props[i].priv = w]], w >>

GetMaybeBuildAttribute(W, n, i) ==
  IF W.ns[n].props[i].priv # NULL THEN << W, W.ns[n].props[i].priv >>
  ELSE BuildAttribute(W, n, i)

\* ------------------------------------------------------ libxml2 tree
\* The sibling chain starting at node n, at most k nodes of it.
RECURSIVE Chain(_, _, _)
Chain(ns, n, k) ==
  IF n = NULL \/ k = 0 THEN <<>>
  ELSE <<n>> \o Chain(ns, ns[n].next, k - 1)

\* The child list of p as a traversal sees it; MaxNodes + 1 long if cyclic.
ChildList(ns, p) == Chain(ns, ns[p].children, MaxNodes + 1)

\* Every node a free of the list starting at `first` walks over.
RECURSIVE Reach(_, _)
Reach(ns, S) ==
  LET T == (S \cup {ns[n].children : n \in S} \cup {ns[n].next : n \in S})
           \ {NULL}
  IN IF T = S THEN S ELSE Reach(ns, T)

Subtree(ns, first) == IF first = NULL THEN {} ELSE Reach(ns, {first})

\* xmlFreePropList: each attribute node is announced, then freed.
RECURSIVE FreeProps(_, _, _)
FreeProps(W, n, i) ==
  IF i > Len(W.ns[n].props) THEN W
  ELSE FreeProps(on_libxml_destruct_attr(W, n, i), n, i + 1)

\* One node of a free: announced to the registry, its properties freed, freed.
FreeOne(W, n) ==
  LET W1 == on_libxml_destruct(Touch(W, n), n)
      W2 == FreeProps(W1, n, 1)
  IN [W2 EXCEPT !.ns = [W2.ns EXCEPT ![n] = FreedNode]]

RECURSIVE FreeAll(_, _)
FreeAll(W, S) ==
  IF S = {} THEN W
  ELSE LET n == CHOOSE x \in S : TRUE IN FreeAll(FreeOne(W, n), S \ {n})

\* A node of S that the walk reaches twice (through two pointers).
ReachedTwice(ns, first, S) ==
  \E n \in S :
    Cardinality({m \in S : ns[m].children = n}) +
    Cardinality({m \in S : ns[m].next = n}) +
    (IF first = n THEN 1 ELSE 0) > 1

\* xmlFreeNodeList(first): the list and everything below it.
xmlFreeNodeList(W, first) ==
  LET S == Subtree(W.ns, first)
      W1 == FreeAll(W, S)
  IN [W1 EXCEPT !.tf = W1.tf \/ ReachedTwice(W.ns, first, S)]

\* xmlFreeNode(cur): cur and the subtree below it; cur is not unlinked.
xmlFreeNode(W, cur) ==
  LET W1 == xmlFreeNodeList(W, W.ns[cur].children) IN FreeOne(W1, cur)

\* A fresh text node holding `text`, child of `parent`.
NewText(ns, id, text, parent) ==
  [ns EXCEPT ![id] = [EmptyNode EXCEPT !.st = "live", !.type = "text",
                                       !.name = "text", !.content = text,
                                       !.parent = parent]]

\* cur->children = xmlStringGetNodeList(doc, content);
\* UPDATE_LAST_CHILD_AND_PARENT(cur)
SetChildrenFromString(W, cur, content) ==
  LET text == xmlStringGetNodeList(content)
      id == NewId(W.ns)
  IN IF text = ""
       THEN [W EXCEPT !.ns = [W.ns EXCEPT ![cur].children = NULL,
                                          ![cur].last = NULL]]
       ELSE [W EXCEPT !.ns = [NewText(W.ns, id, text, cur)
                                EXCEPT ![cur].children = id,
                                       ![cur].last = id]]

\* An xmlNodeSetContent that drops the old children without freeing them.
xmlNodeSetContent_leak(W, cur, content) ==
  IF W.ns[cur].type = "text"
    THEN [Touch(W, cur) EXCEPT !.ns = [W.ns EXCEPT ![cur].content = content]]
    ELSE SetChildrenFromString(Touch(W, cur), cur, content)

\* xmlNodeSetContent(cur, content)
xmlNodeSetContent(W, cur, content) ==
  IF W.ns[cur].type = "text"
    THEN [Touch(W, cur) EXCEPT !.ns = [W.ns EXCEPT ![cur].content = content]]
    ELSE SetChildrenFromString(
           xmlFreeNodeList(Touch(W, cur), W.ns[cur].children), cur, content)

\* xmlNodeGetContent(cur): the text of cur's descendants in document order.
RECURSIVE TextOf(_, _, _)
RECURSIVE TextOfList(_, _, _)
TextOf(ns, n, fuel) ==
  IF fuel = 0 THEN ""
  ELSE IF ns[n].type = "text" THEN ns[n].content
  ELSE TextOfList(ns, ChildList(ns, n), fuel - 1)
TextOfList(ns, list, fuel) ==
  IF list = <<>> THEN ""
  ELSE TextOf(ns, Head(list), fuel) \o TextOfList(ns, Tail(list), fuel)

xmlNodeGetContent(ns, cur) == TextOf(ns, cur, MaxNodes + 1)

\* Nodes needed to hold `content` as children.
NodesFor(content) == IF xmlStringGetNodeList(content) = "" THEN 0 ELSE 1

\* xmlNodeAddContent(cur, content) on a text node: the content is appended.
xmlNodeAddContent(W, cur, content) ==
  [Touch(W, cur) EXCEPT !.ns = [W.ns EXCEPT ![cur].content = @ \o content]]

\* The tail of xmlAddChild: cur is appended to parent's child list.  The
\* lists cur may already be part of are left as they are.
LinkLast(W, parent, cur) ==
  IF W.ns[parent].children = NULL
    THEN [W EXCEPT !.ns = [W.ns EXCEPT ![parent].children = cur,
                                       ![parent].last = cur]]
    ELSE LET prev == W.ns[parent].last IN
         [Touch(W, prev) EXCEPT
            !.ns = [W.ns EXCEPT ![prev].next = cur,
                                ![cur].prev = prev,
                                ![parent].last = cur]]

\* xmlAddChild(parent, cur), as in the libxml2 2.7 this code was written
\* for: text is merged into a text neighbour (cur is freed), otherwise cur
\* gets its new parent and is appended; cur is never unlinked first.
xmlAddChild(W, parent, cur) ==
  LET P == W.ns[parent]
      C == W.ns[cur]
      W0 == Touch(Touch(W, parent), cur)
  IN
  IF parent = cur THEN W
  ELSE IF C.type = "text" /\ P.type = "text"
    THEN xmlFreeNode(xmlNodeAddContent(W0, parent, C.content), cur)
  ELSE IF C.type = "text" /\ P.last # NULL /\ W.ns[P.last].type = "text"
          /\ P.last # cur
    THEN xmlFreeNode(xmlNodeAddContent(W0, P.last, C.content), cur)
  ELSE
    LET W1 == [W0 EXCEPT !.ns = [W0.ns EXCEPT ![cur].parent = parent]] IN
    IF C.parent = parent THEN W1
    ELSE IF P.type = "text" THEN xmlFreeNode(W1, cur)
    ELSE LinkLast(W1, parent, cur)

\* parent and its ancestors, as far as the parent pointers lead.
RECURSIVE Ancestors(_, _, _)
Ancestors(ns, n, fuel) ==
  IF n = NULL \/ fuel = 0 THEN {}
  ELSE {n} \cup Ancestors(ns, ns[n].parent, fuel - 1)

\* xmlAddChild(parent, cur) leaves the tree irregular: cur stays in the list
\* of the parent it had, or cur is parent itself or above it.
Irregular(ns, parent, cur) ==
  /\ parent # cur
  /\ \/ ns[cur].parent \notin {NULL, parent}
     \/ ns[cur].parent = parent /\ ns[cur].type = "text"
          /\ ns[parent].last # cur /\ ns[parent].last # NULL
          /\ ns[ns[parent].last].type = "text"
     \/ cur \in Ancestors(ns, parent, MaxNodes)

\* xmlSetProp(node, name, value): the position of the attribute set.
PropIndex(props, name) ==
  IF \E i \in 1..Len(props) : props[i].name = name
    THEN CHOOSE i \in 1..Len(props) : props[i].name = name
    ELSE 0

\* An xmlSetProp that adds a property without looking for an existing one.
xmlSetProp_append(ns, n, name, value) ==
  [ns EXCEPT ![n].props =
     Append(@, [name |-> name, value |-> value, priv |-> NULL])]

xmlSetProp(ns, n, name, value) ==
  LET i == PropIndex(ns[n].props, name) IN
  IF i # 0 THEN [ns EXCEPT ![n].props[i].value = value]
  ELSE [ns EXCEPT ![n].props =
          Append(@, [name |-> name, value |-> value, priv |-> NULL])]

\* An Attribute::New that wraps the attribute anew on every call.
Attribute_New_fresh(W, n, name, value) ==
  LET W1 == [Touch(W, n) EXCEPT !.ns = xmlSetProp(W.ns, n, name, value)]
  IN BuildAttribute(W1, n, PropIndex(W1.ns[n].props, name))[1]

\* Attribute::New(element, name, value), called as a constructor by set_attr:
\* the attribute is set and its wrapper is the one of the registry.
Attribute_New(W, n, name, value) ==
  IF W.ns[n].type # "element" THEN [Touch(W, n) EXCEPT !.cr = TRUE]
  ELSE LET W1 == [Touch(W, n) EXCEPT !.ns = xmlSetProp(W.ns, n, name, value)]
       IN GetMaybeBuildAttribute(W1, n, PropIndex(W1.ns[n].props, name))[1]

\* Element::set_attr(name, value): JsObj::Unwrap(xml_obj) needs the element's
\* registry slot; then new Attribute(element, name, value).
set_attr(W, n, name, value) ==
  IF W.cr THEN W
  ELSE IF W.ns[n].priv = NULL THEN [Touch(W, n) EXCEPT !.cr = TRUE]
  ELSE Attribute_New(W, n, name, value)

\* The loop of Element::New and Element::Attr over the map's properties, in
\* the order GetPropertyNames lists them.
RECURSIVE SetAttrs(_, _, _)
SetAttrs(W, n, map) ==
  IF map = <<>> THEN W
  ELSE SetAttrs(set_attr(W, n, Head(map)[1], Head(map)[2]), n, Tail(map))

\* Element::get_child(idx): idx is a double; idx2 is twice its value.
RECURSIVE GetChildLoop(_, _, _, _)
GetChildLoop(ns, child, i, idx2) ==
  IF child # NULL /\ 2 * i < idx2
    THEN GetChildLoop(ns, ns[child].next, i + 1, idx2)
    ELSE child

get_child(ns, n, idx2) == GetChildLoop(ns, ns[n].children, 1, idx2)

\* ---------------------------------------------------------- host calls
\* A JavaScript object literal {name: value, ...}: distinct keys, in order.
AttrMaps ==
  {<<>>} \cup
  {<< <<a, v>> >> : a \in AttrNames, v \in AttrValues} \cup
  {<< <<a, v>>, <<b, u>> >> :
     <<a, b>> \in {x \in AttrNames \X AttrNames : x[1] # x[2]},
     <<v, u>> \in AttrValues \X AttrValues}

Maps == {m \in AttrMaps : Len(m) <= MaxMapLen}

\* Twice the index handed to child(): -1, 0, 1, 1.5, 2, 3, ...
Indices2 == {-2, 0, 3} \cup {2 * i : i \in 1..MaxNodes}

NoRet ==
  [op |-> "none", w |-> 0, a |-> "", b |-> "", i |-> 0, m |-> <<>>,
   k |-> "none", vw |-> 0, vs |-> "", vl |-> <<>>]

Ws == 1..Len(wrappers)
ElementWs == {w \in Ws : wrappers[w].kind = "Element"}
AttributeWs == {w \in Ws : wrappers[w].kind = "Attribute"}

\* The process is alive and has not run into undefined behaviour: what it
\* does after touching freed memory is not modelled.
Running == ~crashed /\ ~touchedFreed

Here == World(nodes, wrappers, touchedFreed, crashed)

\* LibXmlObj::Unwrap on the receiver of a call.  A live wrapper yields its
\* object.  A deleted one has no defined outcome: the internal field is
\* either empty ("null") or still holds the pointer to the freed node
\* ("stale").
Unwrap(w) == IF wrappers[w].live THEN {"ok"} ELSE {"null", "stale"}

\* The new state of a call that ran to its return statement.
Commit(W, r) ==
  /\ Len(W.ws) <= MaxWrappers
  /\ nodes' = W.ns
  /\ wrappers' = W.ws
  /\ touchedFreed' = W.tf
  /\ crashed' = W.cr
  /\ UNCHANGED <<irregular, sax, calls, document>>
  /\ ret' = IF W.cr THEN [r EXCEPT !.k = "abort", !.vw = 0, !.vs = "", !.vl = <<>>] ELSE r

\* The same for addChild, which may leave the child in two lists.
CommitLink(W, r, odd) ==
  /\ irregular + odd <= MaxIrregular
  /\ Len(W.ws) <= MaxWrappers
  /\ nodes' = W.ns
  /\ wrappers' = W.ws
  /\ touchedFreed' = W.tf
  /\ crashed' = W.cr
  /\ irregular' = irregular + odd
  /\ ret' = r
  /\ UNCHANGED <<sax, calls, document>>

\* assert(element) fails: the process aborts.
Abort(r) ==
  /\ crashed' = TRUE
  /\ ret' = [r EXCEPT !.k = "abort"]
  /\ UNCHANGED <<nodes, wrappers, touchedFreed, irregular, sax, calls, document>>

\* LIBXMLJS_THROW_EXCEPTION: the call throws and changes nothing.
Throw(r) ==
  /\ ret' = [r EXCEPT !.k = "exception"]
  /\ UNCHANGED <<nodes, wrappers, touchedFreed, crashed, irregular, sax, calls, document>>

\* new libxml.Element(doc, name, attrs, content)
Element_New(name, map, content) ==
  LET id == NewId(nodes)
      W0 == [Here EXCEPT !.ns = [nodes EXCEPT ![id] =
                [EmptyNode EXCEPT !.st = "live", !.name = name]]]
      W1 == SetChildrenFromString(W0, id, content)
      B == GetMaybeBuildElement(W1, id)
      W2 == SetAttrs(B[1], id, map)
  IN /\ Running
     /\ id + NodesFor(content) <= MaxNodes
     /\ Commit(W2, [NoRet EXCEPT !.op = "new", !.a = name, !.b = content,
                                 !.m = map, !.k = "wrapper", !.vw = B[2]])

\* A name(new) that returns without renaming.
Element_Name_keep(w, arg) ==
  LET n == wrappers[w].ptr
      r == [NoRet EXCEPT !.op = "name", !.w = w, !.a = arg]
  IN /\ Running
     /\ \E u \in Unwrap(w) :
          IF u = "null" THEN Abort(r)
          ELSE IF arg = ""
            THEN Commit(Touch(Here, n),
                        [r EXCEPT !.k = "string", !.vs = nodes[n].name])
          ELSE Commit(Touch(Here, n), [r EXCEPT !.k = "this", !.vw = w])

\* No callback is running and none has been called.
NoCalls == [stack |-> <<>>, log |-> <<>>]

\* No document has been made.
NoDoc ==
  [st |-> "unalloc", priv |-> NULL, children |-> NULL, pending |-> <<>>,
   freeing |-> {}]

\* An Element::New that calls the callback before it sets the attributes.
Element_New_callback_early(name, map, content) ==
  LET id == NewId(nodes)
      W0 == [Here EXCEPT !.ns = [nodes EXCEPT ![id] =
                [EmptyNode EXCEPT !.st = "live", !.name = name]]]
      W1 == SetChildrenFromString(W0, id, content)
      B == GetMaybeBuildElement(W1, id)
  IN /\ Running
     /\ id + NodesFor(content) <= MaxNodes
     /\ Len(B[1].ws) <= MaxWrappers
     /\ nodes' = B[1].ns
     /\ wrappers' = B[1].ws
     /\ touchedFreed' = B[1].tf
     /\ crashed' = B[1].cr
     /\ calls' = [stack |-> Append(calls.stack, B[2]),
                  log |-> Append(calls.log, << "call", B[2] >>)]
     /\ ret' = [NoRet EXCEPT !.op = "newcb", !.a = name, !.b = content,
                             !.m = map, !.k = "callback", !.vw = B[2]]
     /\ UNCHANGED <<irregular, sax, document>>

\* new libxml.Element(doc, name, attrs, content, callback), up to the point
\* where it calls callback(obj): the callback is now running.
Element_New_callback(name, map, content) ==
  LET id == NewId(nodes)
      W0 == [Here EXCEPT !.ns = [nodes EXCEPT ![id] =
                [EmptyNode EXCEPT !.st = "live", !.name = name]]]
      W1 == SetChildrenFromString(W0, id, content)
      B == GetMaybeBuildElement(W1, id)
      W2 == SetAttrs(B[1], id, map)
  IN /\ Running
     /\ id + NodesFor(content) <= MaxNodes
     /\ Len(W2.ws) <= MaxWrappers
     /\ nodes' = W2.ns
     /\ wrappers' = W2.ws
     /\ touchedFreed' = W2.tf
     /\ crashed' = W2.cr
     /\ calls' = [stack |-> Append(calls.stack, B[2]),
                  log |-> Append(calls.log, << "call", B[2] >>)]
     /\ ret' = [NoRet EXCEPT !.op = "newcb", !.a = name, !.b = content,
                             !.m = map, !.k = "callback", !.vw = B[2]]
     /\ UNCHANGED <<irregular, sax, document>>

\* The callback running innermost returns, and the Element::New that called
\* it returns obj.
Element_New_return ==
  /\ Running
  /\ calls.stack # <<>>
  /\ LET w == calls.stack[Len(calls.stack)] IN
       /\ calls' = [stack |-> SubSeq(calls.stack, 1, Len(calls.stack) - 1),
                    log |-> Append(calls.log, << "return", w >>)]
       /\ ret' = [NoRet EXCEPT !.op = "newcb", !.k = "wrapper", !.vw = w]
  /\ UNCHANGED <<nodes, wrappers, touchedFreed, crashed, irregular, sax, document>>

\* element.name() and element.name(new)
Element_Name(w, arg) ==
  LET n == wrappers[w].ptr
      r == [NoRet EXCEPT !.op = "name", !.w = w, !.a = arg]
  IN /\ Running
     /\ \E u \in Unwrap(w) :
          IF u = "null" THEN Abort(r)
          ELSE IF arg = ""
            THEN Commit(Touch(Here, n),
                        [r EXCEPT !.k = "string", !.vs = nodes[n].name])
          ELSE Commit([Touch(Here, n) EXCEPT !.ns =
                         IF nodes[n].type = "text" THEN nodes
                         ELSE [nodes EXCEPT ![n].name = arg]],
                      [r EXCEPT !.k = "this", !.vw = w])

\* Element::get_attr(name)
get_attr(W, n, name) ==
  LET i == IF W.ns[n].type = "element"
             THEN PropIndex(W.ns[n].props, name) ELSE 0
  IN IF i = 0 THEN << Touch(W, n), NULL >>
     ELSE GetMaybeBuildAttribute(Touch(W, n), n, i)

\* element.attr(name)
Element_Attr_get(w, name) ==
  LET n == wrappers[w].ptr
      r == [NoRet EXCEPT !.op = "attr", !.w = w, !.a = name]
      G == get_attr(Here, n, name)
  IN /\ Running
     /\ \E u \in Unwrap(w) :
          IF u = "null" THEN Abort(r)
          ELSE Commit(G[1], IF G[2] = NULL THEN [r EXCEPT !.k = "null"]
                            ELSE [r EXCEPT !.k = "wrapper", !.vw = G[2]])

\* element.attr({name: value, ...})
Element_Attr_map(w, map) ==
  LET n == wrappers[w].ptr
      r == [NoRet EXCEPT !.op = "attrmap", !.w = w, !.m = map]
  IN /\ Running
     /\ \E u \in Unwrap(w) :
          IF u = "null" THEN Abort(r)
          ELSE Commit(SetAttrs(Here, n, map), [r EXCEPT !.k = "this", !.vw = w])

\* element.attr(name, value), element.attr(): the default case of the switch
Element_Attr_other(w, name, value) ==
  LET r == [NoRet EXCEPT !.op = "attr2", !.w = w, !.a = name, !.b = value]
  IN /\ Running
     /\ \E u \in Unwrap(w) :
          IF u = "null" THEN Abort(r) ELSE Throw(r)

\* element.addChild(child)
Element_AddChild(w, cw) ==
  LET n == wrappers[w].ptr
      c == wrappers[cw].ptr
      r == [NoRet EXCEPT !.op = "addChild", !.w = w, !.i = cw]
  IN /\ Running
     /\ \E u \in Unwrap(w), v \in Unwrap(cw) :
          IF u = "null" \/ v = "null" THEN Abort(r)
          ELSE CommitLink(xmlAddChild(Here, n, c),
                          [r EXCEPT !.k = "this", !.vw = w],
                          IF Irregular(nodes, n, c) THEN 1 ELSE 0)

\* element.text()
Element_Text_get(w) ==
  LET n == wrappers[w].ptr
      r == [NoRet EXCEPT !.op = "text", !.w = w]
      content == xmlNodeGetContent(nodes, n)
  IN /\ Running
     /\ \E u \in Unwrap(w) :
          IF u = "null" THEN Abort(r)
          ELSE Commit(Touch(Here, n),
                      IF content # "" THEN [r EXCEPT !.k = "string", !.vs = content]
                      ELSE [r EXCEPT !.k = "null"])

\* element.text(value)
Element_Text_set(w, value) ==
  LET n == wrappers[w].ptr
      r == [NoRet EXCEPT !.op = "settext", !.w = w, !.a = value]
  IN /\ Running
     /\ NewId(nodes) + NodesFor(value) - 1 <= MaxNodes
     /\ \E u \in Unwrap(w) :
          IF u = "null" THEN Abort(r)
          ELSE Commit(xmlNodeSetContent(Here, n, value),
                      [r EXCEPT !.k = "this", !.vw = w])

\* element.child(idx); idx2 is twice the number given
Element_Child(w, idx2) ==
  LET n == wrappers[w].ptr
      r == [NoRet EXCEPT !.op = "child", !.w = w, !.i = idx2]
      child == get_child(nodes, n, idx2)
  IN /\ Running
     /\ \E u \in Unwrap(w) :
          IF u = "null" THEN Abort(r)
          ELSE IF child = NULL THEN Commit(Touch(Here, n), [r EXCEPT !.k = "null"])
          ELSE LET B == GetMaybeBuildElement(Touch(Here, n), child)
               IN Commit(B[1], [r EXCEPT !.k = "wrapper", !.vw = B[2]])

\* element.child('x'): not a number
Element_Child_bad(w) ==
  LET r == [NoRet EXCEPT !.op = "childbad", !.w = w]
  IN /\ Running
     /\ \E u \in Unwrap(w) :
          IF u = "null" THEN Abort(r) ELSE Throw(r)

\* ------------------------------------------------------------ navigation
\* A call that never returns normally: the process dies of a fault
\* ("segv") or loops without end ("hang").
Fault(r, how) ==
  /\ crashed' = TRUE
  /\ ret' = [r EXCEPT !.k = how]
  /\ UNCHANGED <<nodes, wrappers, touchedFreed, irregular, sax, calls, document>>

\* The nodes met by following `field` from n, at most k of them.
RECURSIVE Walk(_, _, _, _)
Walk(ns, n, field, k) ==
  IF n = NULL \/ k = 0 THEN <<>>
  ELSE <<n>> \o Walk(ns, ns[n][field], field, k - 1)

\* A walk along `field` from n that never reaches NULL.
Endless(ns, n, field) == Len(Walk(ns, n, field, MaxNodes + 1)) > MaxNodes

\* Reading every node of a walk.
TouchAll(W, walk) ==
  [W EXCEPT !.tf = W.tf \/ \E i \in DOMAIN walk : W.ns[walk[i]].st = "freed"]

\* xmlXPathNodeSetCreate(val): a set holding val, or an empty one.
xmlXPathNodeSetCreate(val) == IF val = NULL THEN <<>> ELSE <<val>>

\* A node-set add that does not look for the node first.
xmlXPathNodeSetAdd_unique(set, val) == Append(set, val)

\* xmlXPathNodeSetAdd(set, val): a node already in the set is not added.
xmlXPathNodeSetAdd(set, val) ==
  IF \E i \in DOMAIN set : set[i] = val THEN set ELSE Append(set, val)

\* do { xmlXPathNodeSetAdd(set, child); } while ((child = child->next));
RECURSIVE AddSiblings(_, _)
AddSiblings(set, list) ==
  IF list = <<>> THEN set
  ELSE AddSiblings(xmlXPathNodeSetAdd(set, Head(list)), Tail(list))

\* for (i...) array->Set(i, LIBXMLJS_GET_MAYBE_BUILD(Element, xmlNode, node))
RECURSIVE WrapAll(_, _, _)
WrapAll(W, tab, acc) ==
  IF tab = <<>> THEN << W, acc >>
  ELSE LET B == GetMaybeBuildElement(W, Head(tab))
       IN WrapAll(B[1], Tail(tab), Append(acc, B[2]))

\* Element::get_children()
get_children(W, n) ==
  LET child == W.ns[n].children
      set == AddSiblings(xmlXPathNodeSetCreate(child), ChildList(W.ns, n))
  IN IF child = NULL THEN << W, <<>> >>
     ELSE WrapAll(TouchAll(W, ChildList(W.ns, n)), set, <<>>)

\* element.children()
Element_Children(w) ==
  LET n == wrappers[w].ptr
      r == [NoRet EXCEPT !.op = "children", !.w = w]
  IN /\ Running
     /\ \E u \in Unwrap(w) :
          IF u = "null" THEN Abort(r)
          ELSE IF Endless(nodes, nodes[n].children, "next") THEN Fault(r, "hang")
          ELSE LET B == get_children(Touch(Here, n), n)
               IN Commit(B[1], [r EXCEPT !.k = "array", !.vl = B[2]])

\* xmlGetNodePath: two siblings answer to the same step when both are text,
\* or both are elements of one name.
SameStep(ns, a, b) ==
  /\ ns[a].type = ns[b].type
  /\ ns[a].type = "element" => ns[a].name = ns[b].name

\* An occurrence number that looks at the preceding siblings only.
Occur_preceding(ns, cur) ==
  LET before == Walk(ns, ns[cur].prev, "prev", MaxNodes)
      same == {i \in DOMAIN before : SameStep(ns, before[i], cur)}
  IN IF same # {} THEN Cardinality(same) + 1 ELSE 0

\* xmlGetNodePath: the occurrence number of cur among its siblings, 0 when
\* no sibling answers to the same step.
Occur(ns, cur) ==
  LET before == Walk(ns, ns[cur].prev, "prev", MaxNodes)
      after == Walk(ns, ns[cur].next, "next", MaxNodes)
      same(walk) == {i \in DOMAIN walk : SameStep(ns, walk[i], cur)}
  IN IF same(before) # {} THEN Cardinality(same(before)) + 1
     ELSE IF same(after) # {} THEN 1
     ELSE 0

\* xmlGetNodePath: the step of one node, "/name" or "/name[n]".
PathStep(ns, cur) ==
  "/" \o (IF ns[cur].type = "text" THEN "text()" ELSE ns[cur].name)
      \o (IF Occur(ns, cur) = 0 THEN ""
          ELSE "[" \o ToString(Occur(ns, cur)) \o "]")

\* xmlGetNodePath(node): the steps from the topmost ancestor down to node.
RECURSIVE xmlGetNodePath(_, _, _)
xmlGetNodePath(ns, cur, fuel) ==
  IF cur = NULL \/ fuel = 0 THEN ""
  ELSE xmlGetNodePath(ns, ns[cur].parent, fuel - 1) \o PathStep(ns, cur)

\* Every node xmlGetNodePath(n) reads.
PathReads(ns, n) ==
  LET up == Walk(ns, n, "parent", MaxNodes)
  IN UNION {{up[i]} \cup {x \in NodeIds :
                \/ \E j \in 1..MaxNodes :
                     /\ j <= Len(Walk(ns, ns[up[i]].prev, "prev", MaxNodes))
                     /\ Walk(ns, ns[up[i]].prev, "prev", MaxNodes)[j] = x
                \/ /\ Occur(ns, up[i]) < 2
                   /\ \E j \in 1..MaxNodes :
                        /\ j <= Len(Walk(ns, ns[up[i]].next, "next", MaxNodes))
                        /\ Walk(ns, ns[up[i]].next, "next", MaxNodes)[j] = x}
            : i \in DOMAIN up}

\* A walk of xmlGetNodePath(n) that never ends.
PathEndless(ns, n) ==
  \/ Endless(ns, n, "parent")
  \/ \E x \in PathReads(ns, n) :
       Endless(ns, x, "prev") \/ Endless(ns, x, "next")

\* Element::get_path()
get_path(W, n) ==
  << [W EXCEPT !.tf = W.tf \/ \E x \in PathReads(W.ns, n) : W.ns[x].st = "freed"],
     xmlGetNodePath(W.ns, n, MaxNodes) >>

\* element.path()
Element_Path(w) ==
  LET n == wrappers[w].ptr
      r == [NoRet EXCEPT !.op = "path", !.w = w]
  IN /\ Running
     /\ \E u \in Unwrap(w) :
          IF u = "null" THEN Abort(r)
          ELSE IF PathEndless(nodes, n) THEN Fault(r, "hang")
          ELSE LET B == get_path(Touch(Here, n), n)
               IN Commit(B[1], [r EXCEPT !.k = "string", !.vs = B[2]])

\* The XPath expressions a caller passes: the element children, the element
\* children of the first element child, a number, and one that does not
\* compile.
XPaths == {"*", "*[1]/*", "count(*)", "*["}

\* The element children of n in document order.
ElementChildren(ns, n) ==
  SelectSeq(ChildList(ns, n), LAMBDA c : ns[c].type = "element")

\* The element children of every node of a list, in document order.
RECURSIVE ChildrenOfAll(_, _)
ChildrenOfAll(ns, list) ==
  IF list = <<>> THEN <<>>
  ELSE ElementChildren(ns, Head(list)) \o ChildrenOfAll(ns, Tail(list))

\* An xmlXPathObject: its type and its nodesetval (isnull: a NULL pointer).
XPathObject(type, isnull, tab) == [type |-> type, isnull |-> isnull, tab |-> tab]

\* xmlXPathEval(xpath, ctxt) with ctxt->node = n.  A step over an empty
\* context set leaves a node-set object whose nodesetval is NULL; a step that
\* finds nothing under a non-empty context leaves an empty set.
xmlXPathEval(ns, n, xpath) ==
  CASE xpath = "*" -> XPathObject("XPATH_NODESET", FALSE, ElementChildren(ns, n))
    [] xpath = "*[1]/*" ->
         IF ElementChildren(ns, n) = <<>>
         THEN XPathObject("XPATH_NODESET", TRUE, <<>>)
         ELSE XPathObject("XPATH_NODESET", FALSE,
                          ChildrenOfAll(ns, SubSeq(ElementChildren(ns, n), 1, 1)))
    [] xpath = "count(*)" -> XPathObject("XPATH_NUMBER", TRUE, <<>>)
    [] OTHER -> XPathObject("NULL", TRUE, <<>>)

\* Every node the evaluation of xpath at n reads.
XPathReads(ns, n, xpath) ==
  LET kids == ChildList(ns, n)
      all(list) == {list[i] : i \in DOMAIN list}
  IN IF xpath = "*" THEN all(kids)
     ELSE IF xpath = "*[1]/*"
       THEN all(kids) \cup UNION {all(ChildList(ns, c)) :
                                    c \in all(SubSeq(ElementChildren(ns, n), 1,
                                                     IF ElementChildren(ns, n) = <<>>
                                                       THEN 0 ELSE 1))}
     ELSE {}

\* An evaluation of xpath at n that never ends.
XPathEndless(ns, n, xpath) ==
  \E x \in {ns[n].children} \cup {ns[c].children : c \in XPathReads(ns, n, xpath)} :
     x # NULL /\ xpath \in {"*", "*[1]/*"} /\ Endless(ns, x, "next")

\* Element::find(xpath)
find(W, n, xpath) ==
  LET result == xmlXPathEval(W.ns, n, xpath)
      W1 == [W EXCEPT !.tf = W.tf \/ \E x \in XPathReads(W.ns, n, xpath) :
                                        W.ns[x].st = "freed"]
  IN IF result.type = "NULL" THEN << W1, "array", <<>> >>
     ELSE IF result.type # "XPATH_NODESET" THEN << W1, "array", <<>> >>
     ELSE IF result.isnull THEN << W1, "segv", <<>> >>
     ELSE LET B == WrapAll(W1, result.tab, <<>>)
          IN << B[1], "array", B[2] >>

\* element.find(xpath)
Element_Find(w, xpath) ==
  LET n == wrappers[w].ptr
      r == [NoRet EXCEPT !.op = "find", !.w = w, !.a = xpath]
  IN /\ Running
     /\ \E u \in Unwrap(w) :
          IF u = "null" THEN Abort(r)
          ELSE IF XPathEndless(nodes, n, xpath) THEN Fault(r, "hang")
          ELSE LET F == find(Touch(Here, n), n, xpath)
               IN IF F[2] = "segv" THEN Fault(r, "segv")
                  ELSE Commit(F[1], [r EXCEPT !.k = "array", !.vl = F[3]])

\* ------------------------------------------------------------ document
\* No free of the document is under way: host code can run.
Idle == document.st # "freeing"

\* new libxml.Document(): the native document and its wrapper, registered in
\* the _private slot of the document.
Document_New ==
  /\ Running
  /\ document.st = "unalloc"
  /\ Len(wrappers) < MaxWrappers
  /\ wrappers' = Append(wrappers,
                        [kind |-> "Document", ptr |-> NULL, attr |-> "", live |-> TRUE])
  /\ document' = [document EXCEPT !.st = "live", !.priv = Len(wrappers) + 1]
  /\ ret' = [NoRet EXCEPT !.op = "newdoc", !.k = "wrapper", !.vw = Len(wrappers) + 1]
  /\ UNCHANGED <<nodes, touchedFreed, crashed, irregular, sax, calls>>

\* The root of the document, NULL if it has none.
get_root == document.children

\* document.root(element): a parentless element becomes the root.
Document_Root(w) ==
  LET n == wrappers[w].ptr
  IN /\ Running
     /\ document.st = "live"
     /\ document.children = NULL
     /\ wrappers[w].live
     /\ nodes[n].st = "live" /\ nodes[n].type = "element" /\ nodes[n].parent = NULL
     /\ document' = [document EXCEPT !.children = n]
     /\ ret' = [NoRet EXCEPT !.op = "root", !.w = w, !.k = "wrapper", !.vw = w]
     /\ UNCHANGED <<nodes, wrappers, touchedFreed, crashed, irregular, sax, calls>>

\* The notifications of a free of the list starting at cur, in the order the
\* engine makes them: a node, the nodes below it, its attributes, then its
\* next sibling.  <<n, 0>> is the node n, <<n, i>> its i-th attribute.
RECURSIVE FreeOrder(_, _, _)
FreeOrder(ns, cur, fuel) ==
  IF cur = NULL \/ fuel = 0 THEN <<>>
  ELSE << <<cur, 0>> >>
         \o FreeOrder(ns, ns[cur].children, fuel - 1)
         \o [i \in 1..Len(ns[cur].props) |-> <<cur, i>>]
         \o FreeOrder(ns, ns[cur].next, fuel - 1)

\* The engine starts to free the document (xmlFreeDoc): the document node is
\* announced first, then every node and attribute of the tree below it.
\* <<NULL, 0>> is the document node.
xmlFreeDoc ==
  LET order == FreeOrder(nodes, document.children, MaxNodes) IN
  /\ Running
  /\ document.st = "live"
  /\ document' = [document EXCEPT
                    !.st = "freeing",
                    !.pending = << <<NULL, 0>> >> \o order,
                    !.freeing = {order[i][1] : i \in DOMAIN order}]
  /\ UNCHANGED <<nodes, wrappers, touchedFreed, crashed, irregular, ret, sax, calls>>

\* The engine calls on_libxml_destruct for the next node of the free.
Notify ==
  /\ Running
  /\ document.st = "freeing"
  /\ document.pending # <<>>
  /\ LET n == Head(document.pending)[1]
         i == Head(document.pending)[2]
         d == [document EXCEPT !.pending = Tail(document.pending)]
     IN IF n = NULL
          THEN /\ document' = on_libxml_destruct_doc(d, wrappers)[1]
               /\ wrappers' = on_libxml_destruct_doc(d, wrappers)[2]
               /\ UNCHANGED <<nodes, touchedFreed>>
          ELSE LET W == IF nodes[n].st # "live" THEN Touch(Here, n)
                        ELSE IF i = 0 THEN on_libxml_destruct(Here, n)
                        ELSE on_libxml_destruct_attr(Here, n, i)
               IN /\ document' = d
                  /\ nodes' = W.ns
                  /\ wrappers' = W.ws
                  /\ touchedFreed' = W.tf
  /\ UNCHANGED <<crashed, irregular, ret, sax, calls>>

\* The free ends: the memory of the tree and of the document is released.
xmlFreeDoc_done ==
  /\ Running
  /\ document.st = "freeing"
  /\ document.pending = <<>>
  /\ nodes' = [n \in NodeIds |->
                 IF n \in document.freeing THEN FreedNode ELSE nodes[n]]
  /\ document' = [NoDoc EXCEPT !.st = "freed"]
  /\ UNCHANGED <<wrappers, touchedFreed, crashed, irregular, ret, sax, calls>>

\* ------------------------------------------------------------ SAX
\* Input is a sequence of bytes.  A tag is "<" name ">" or "<" "/" name ">";
\* every other byte is character data.
NameBytes == {"a", "b"}

\* The documents parsed: well formed ones, one with a text run of two bytes,
\* a mismatched end tag, content after the root element.
DocFlat == <<"<", "a", ">", "x", "<", "/", "a", ">">>
DocNested ==
  <<"<", "a", ">", "<", "b", ">", "x", "<", "/", "b", ">", "<", "/", "a", ">">>
DocText == <<"<", "a", ">", "x", "x", "<", "/", "a", ">">>
DocMismatch == <<"<", "a", ">", "<", "/", "b", ">">>
DocExtra == <<"<", "a", ">", "<", "/", "a", ">", "x">>

WellFormed == {DocFlat, DocNested, DocText}
Docs == WellFormed \cup {DocMismatch, DocExtra}

\* What can have been pushed so far: a document, or the beginning of one.
Inputs == UNION {{SubSeq(d, 1, k) : k \in 0..Len(d)} : d \in Docs}

\* The chunks a push can carry.
Chunks ==
  UNION {{SubSeq(d, i, i + k - 1) : i \in 1..(Len(d) - k + 1)} :
           <<d, k>> \in Docs \X (0..MaxChunk)}

SaxEvent(kind, arg) == [kind |-> kind, arg |-> arg]

\* The message of the error that the end of input can add.
ExtraContent == "Extra content at the end of the document\n"

\* The handlers the host registers: the bundle of createParser.
createParser_noEndElement ==
  {"startDocument", "endDocument", "startElementNS", "characters",
   "cdata", "comment", "warning", "error"}

createParser ==
  {"startDocument", "endDocument", "startElementNS", "endElementNS",
   "characters", "cdata", "comment", "warning", "error"}

\* The bridge: an engine callback is handed to its handler if there is one.
Dispatch(events) == SelectSeq(events, LAMBDA e : e.kind \in createParser)

\* The engine context: unconsumed input, parser state, open elements, and
\* the callbacks made so far.
NewCtxt == [buf |-> <<>>, instate |-> "start", stack |-> <<>>, out |-> <<>>]

Emit(c, kind, arg) == [c EXCEPT !.out = Append(@, SaxEvent(kind, arg))]

\* A fatal error: reported, and the engine stops reading.
Fatal(c, msg) ==
  [Emit(c, "error", msg) EXCEPT !.instate = "eof", !.buf = <<>>]

FirstIndex(buf, b) ==
  IF \E i \in 1..Len(buf) : buf[i] = b
    THEN CHOOSE i \in 1..Len(buf) :
           buf[i] = b /\ \A j \in 1..(i - 1) : buf[j] # b
    ELSE 0

\* One complete tag.
ParseTag(c, tag) ==
  IF Len(tag) = 3 /\ tag[2] \in NameBytes
    THEN IF c.instate = "epilog" THEN Fatal(c, "extra")
         ELSE [Emit(c, "startElementNS", tag[2]) EXCEPT
                 !.instate = "content", !.stack = <<tag[2]>> \o @]
  ELSE IF Len(tag) = 4 /\ tag[2] = "/" /\ tag[3] \in NameBytes
    THEN IF c.stack = <<>> THEN Fatal(c, "extra")
         ELSE LET c1 == IF Head(c.stack) = tag[3] THEN c
                        ELSE Emit(c, "error", "mismatch")
              IN [Emit(c1, "endElementNS", Head(c.stack)) EXCEPT
                    !.stack = Tail(@),
                    !.instate = IF Tail(c.stack) = <<>> THEN "epilog"
                                ELSE "content"]
  ELSE Fatal(c, "malformed")

\* One run of character data.
ParseCharData(c, run) ==
  IF c.instate = "content" THEN Emit(c, "characters", run)
  ELSE Fatal(c, "extra")

\* An engine that reports character data as soon as it has some.
RECURSIVE xmlParseTryOrFinish_eager(_, _)
xmlParseTryOrFinish_eager(c, terminate) ==
  IF c.buf = <<>> \/ c.instate = "eof" THEN c
  ELSE IF c.instate = "start"
    THEN xmlParseTryOrFinish_eager(
           [Emit(c, "startDocument", "") EXCEPT !.instate = "misc"], terminate)
  ELSE IF Head(c.buf) = "<"
    THEN LET g == FirstIndex(c.buf, ">") IN
         IF g = 0 THEN c
         ELSE xmlParseTryOrFinish_eager(
                ParseTag([c EXCEPT !.buf = SubSeq(@, g + 1, Len(@))],
                         SubSeq(c.buf, 1, g)), terminate)
  ELSE LET lt == FirstIndex(c.buf, "<")
           k == IF lt = 0 THEN Len(c.buf) ELSE lt - 1
       IN xmlParseTryOrFinish_eager(
            ParseCharData([c EXCEPT !.buf = SubSeq(@, k + 1, Len(@))],
                          SubSeq(c.buf, 1, k)), terminate)

\* The engine's loop: it consumes the complete constructs of the input it
\* has and leaves an incomplete one for the next chunk.
RECURSIVE xmlParseTryOrFinish(_, _)
xmlParseTryOrFinish(c, terminate) ==
  IF c.buf = <<>> \/ c.instate = "eof" THEN c
  ELSE IF c.instate = "start"
    THEN xmlParseTryOrFinish(
           [Emit(c, "startDocument", "") EXCEPT !.instate = "misc"], terminate)
  ELSE IF Head(c.buf) = "<"
    THEN LET g == FirstIndex(c.buf, ">") IN
         IF g = 0 THEN c
         ELSE xmlParseTryOrFinish(
                ParseTag([c EXCEPT !.buf = SubSeq(@, g + 1, Len(@))],
                         SubSeq(c.buf, 1, g)), terminate)
  ELSE LET lt == FirstIndex(c.buf, "<")
           k == IF lt = 0 THEN Len(c.buf) ELSE lt - 1
       IN IF lt = 0 /\ ~terminate THEN c
          ELSE xmlParseTryOrFinish(
                 ParseCharData([c EXCEPT !.buf = SubSeq(@, k + 1, Len(@))],
                               SubSeq(c.buf, 1, k)), terminate)

\* The input fed so far ends where a document can end.
ValidlyTerminated(c) == c.instate \in {"epilog", "eof"} /\ c.buf = <<>>

\* End of input signalled after the last chunk.
EndOfInput(c) ==
  LET c1 == IF ValidlyTerminated(c) THEN c ELSE Emit(c, "error", ExtraContent)
  IN [Emit(c1, "endDocument", "") EXCEPT !.instate = "eof"]

\* The incremental parser fed one chunk.
xmlParseChunk(c, chunk, terminate) ==
  LET c1 == xmlParseTryOrFinish(
              [c EXCEPT !.buf = IF c.instate = "eof" THEN <<>>
                                ELSE @ \o chunk], terminate)
  IN IF terminate THEN EndOfInput(c1) ELSE c1

\* The whole-document parser on a complete input.
xmlParseDocument(doc) ==
  LET c1 == xmlParseTryOrFinish([NewCtxt EXCEPT !.buf = doc], TRUE)
  IN Emit(c1, "endDocument", "").out

\* A push on a finalized session is refused.
PushAllowed_always(state) == TRUE

PushAllowed(state) == state # "Finalized"

NoSax ==
  [state |-> "Idle", fed |-> <<>>, ctxt |-> NewCtxt, dispatched |-> <<>>,
   op |-> "none", last |-> FALSE, res |-> "none",
   wholeDoc |-> <<>>, whole |-> <<>>]

\* parser.push(chunk, isLastChunk) on the SaxPushParser
SaxPushParser_Push(chunk, last) ==
  /\ UNCHANGED treevars
  /\ IF ~PushAllowed(sax.state)
       THEN sax' = [sax EXCEPT !.op = "push", !.last = last,
                               !.res = "usage-error"]
       ELSE /\ sax.fed \o chunk \in Inputs
            /\ last => sax.fed \o chunk # <<>>
            /\ LET c == xmlParseChunk(sax.ctxt, chunk, last)
                   new == SubSeq(c.out, Len(sax.ctxt.out) + 1, Len(c.out))
               IN sax' = [sax EXCEPT
                    !.state = IF last THEN "Finalized" ELSE "Parsing",
                    !.fed = @ \o chunk,
                    !.ctxt = c,
                    !.dispatched = @ \o Dispatch(new),
                    !.op = "push", !.last = last, !.res = "ok"]

\* parser.parseString(doc) on a SaxParser, whose events are kept apart
SaxParser_ParseString(doc) ==
  /\ UNCHANGED treevars
  /\ sax' = [sax EXCEPT !.op = "parseString",
                        !.wholeDoc = doc,
                        !.whole = Dispatch(xmlParseDocument(doc))]

Init ==
  /\ nodes = [n \in NodeIds |-> EmptyNode]
  /\ wrappers = <<>>
  /\ touchedFreed = FALSE
  /\ crashed = FALSE
  /\ irregular = 0
  /\ ret = NoRet
  /\ sax = NoSax
  /\ calls = NoCalls
  /\ document = NoDoc

\* The tree operations: construction with content, children, reparenting.
NextTree ==
  \/ \E content \in Contents : Element_New("a", <<>>, content)
  \/ \E w \in ElementWs : Element_Name(w, "")
  \/ \E w \in ElementWs, cw \in ElementWs : Element_AddChild(w, cw)
  \/ \E w \in ElementWs : Element_Text_get(w)
  \/ \E w \in ElementWs, value \in Contents : Element_Text_set(w, value)
  \/ \E w \in ElementWs, idx2 \in Indices2 : Element_Child(w, idx2)
  \/ \E w \in ElementWs : Element_Child_bad(w)

SpecTree == Init /\ [][NextTree]_vars

\* Navigation: names, child lists, paths and XPath queries.
NextNav ==
  \/ \E name \in Names, content \in {"", "x"} : Element_New(name, <<>>, content)
  \/ \E w \in ElementWs, arg \in Names \cup {""} : Element_Name(w, arg)
  \/ \E w \in ElementWs, cw \in ElementWs : Element_AddChild(w, cw)
  \/ \E w \in ElementWs : Element_Children(w)
  \/ \E w \in ElementWs : Element_Path(w)
  \/ \E w \in ElementWs, xpath \in XPaths : Element_Find(w, xpath)

SpecNav == Init /\ [][NextNav]_vars

\* Construction with a configure callback; the calls between a call and its
\* return are made by the body of the callback.
NextBuild ==
  \/ \E name \in Names, map \in {<<>>, << <<"p", "1">> >>}, content \in {"", "x"} :
       Element_New_callback(name, map, content)
  \/ Element_New_return
  \/ \E w \in ElementWs : Element_Name(w, "")
  \/ \E w \in ElementWs : Element_Attr_get(w, "p")
  \/ \E w \in ElementWs : Element_Text_get(w)

SpecBuild == Init /\ [][NextBuild]_vars

\* A document, its tree, and the free of the document by the engine.  Host
\* calls run only while no free is under way.
NextDoc ==
  \/ Document_New
  \/ \E map \in {<<>>, << <<"p", "1">> >>}, content \in {"", "x"} :
       Idle /\ Element_New("a", map, content)
  \/ \E w \in ElementWs, cw \in ElementWs :
       Idle /\ wrappers[cw].ptr # get_root /\ Element_AddChild(w, cw)
  \/ \E w \in ElementWs : Idle /\ Element_Attr_get(w, "p")
  \/ \E w \in ElementWs : Idle /\ Element_Child(w, 2)
  \/ \E w \in ElementWs : Document_Root(w)
  \/ xmlFreeDoc
  \/ Notify
  \/ xmlFreeDoc_done

SpecDoc == Init /\ [][NextDoc]_vars

\* The attribute operations on elements without children.
NextAttr ==
  \/ \E name \in Names, map \in Maps : Element_New(name, map, "")
  \/ \E w \in ElementWs, arg \in Names \cup {""} : Element_Name(w, arg)
  \/ \E w \in ElementWs, name \in AttrNames : Element_Attr_get(w, name)
  \/ \E w \in ElementWs, map \in Maps : Element_Attr_map(w, map)
  \/ \E w \in ElementWs, name \in AttrNames, value \in AttrValues :
       Element_Attr_other(w, name, value)

SpecAttr == Init /\ [][NextAttr]_vars

\* Every operation, on one name, one attribute and one content.
NextAll ==
  \/ \E map \in {<<>>, << <<"p", "1">> >>}, content \in {"", "x"} :
       Element_New("a", map, content)
  \/ \E w \in ElementWs : Element_Name(w, "")
  \/ \E w \in ElementWs : Element_Attr_get(w, "p")
  \/ \E w \in ElementWs, v \in AttrValues :
       Element_Attr_map(w, << <<"p", v>> >>)
  \/ \E w \in ElementWs : Element_Attr_other(w, "p", "1")
  \/ \E w \in ElementWs, cw \in ElementWs : Element_AddChild(w, cw)
  \/ \E w \in ElementWs : Element_Text_get(w)
  \/ \E w \in ElementWs, value \in Contents : Element_Text_set(w, value)
  \/ \E w \in ElementWs, idx2 \in {2, 4} : Element_Child(w, idx2)

SpecAll == Init /\ [][NextAll]_vars

\* The SAX parsers.
NextSax ==
  \/ \E chunk \in Chunks, last \in BOOLEAN : SaxPushParser_Push(chunk, last)
  \/ \E doc \in Inputs \ {<<>>} : SaxParser_ParseString(doc)

SpecSax == Init /\ [][NextSax]_vars

\* --------------------------------------------------------- properties
\* C1: an operation called on a wrapper whose native node has been destroyed
\* fails with a use-after-free error: the call throws, the process keeps
\* running and no freed memory is read.
C1_InvalidatedWrapperFails ==
  [][\A w \in Ws :
       (ret'.op # "new" /\ ret'.w = w /\ ~wrappers[w].live)
         => (ret'.k = "exception" /\ ~crashed' /\ ~touchedFreed')]_vars

\* The positions of node c in the child list of node p.
Positions(ns, p, c) ==
  {i \in 1..Len(ChildList(ns, p)) : ChildList(ns, p)[i] = c}

\* The native nodes form a forest: every child list ends, no node is above
\* itself, and a live node is in the child list of its parent, once, and in
\* no other list.
IsTree(ns) ==
  \A c \in NodeIds : ns[c].st = "live" =>
    /\ Len(ChildList(ns, c)) <= MaxNodes
    /\ c \notin Ancestors(ns, ns[c].parent, MaxNodes)
    /\ \A p \in NodeIds : ns[p].st = "live" =>
         Cardinality(Positions(ns, p, c)) = (IF ns[c].parent = p THEN 1 ELSE 0)

\* C6: child(i) returns the i-th child for 1 <= i <= n and null for 0 and
\* every other index.
C6_ChildByIndex ==
  (ret.op = "child" /\ Running /\ irregular = 0 /\ wrappers[ret.w].live) =>
    LET list == ChildList(nodes, wrappers[ret.w].ptr) IN
    IF ret.i % 2 = 0 /\ ret.i \div 2 \in 1..Len(list)
      THEN ret.k = "wrapper" /\ wrappers[ret.vw].ptr = list[ret.i \div 2]
      ELSE ret.k = "null"

\* C10: after parent.addChild(c), c is a child of parent and of no other
\* node, and the nodes still form a tree; an invalid child makes the call
\* fail with an exception.
C10_AddChildReparents ==
  ret.op = "addChild" =>
    IF ret.k = "this"
      THEN LET p == wrappers[ret.w].ptr
               c == wrappers[ret.i].ptr
           IN /\ nodes[c].st = "live"
              /\ nodes[c].parent = p
              /\ Positions(nodes, p, c) # {}
              /\ \A m \in NodeIds \ {p} : Positions(nodes, m, c) = {}
              /\ IsTree(nodes)
      ELSE ret.k = "exception" /\ ~crashed

\* The wrapper w is the one registered on the node it points at.
Registered(w) ==
  LET n == wrappers[w].ptr IN
  /\ nodes[n].st = "live"
  /\ IF wrappers[w].kind = "Element" THEN nodes[n].priv = w
     ELSE \E i \in 1..Len(nodes[n].props) :
            /\ nodes[n].props[i].name = wrappers[w].attr
            /\ nodes[n].props[i].priv = w

\* The live wrappers of node n (attr = "") or of its attribute `attr`.
WrappersOf(n, attr) ==
  {w \in Ws : wrappers[w].live /\ wrappers[w].ptr = n /\ wrappers[w].attr = attr}

C7_AttrNameValue ==
  (ret.op = "attr2" /\ wrappers[ret.w].live) =>
    LET props == nodes[wrappers[ret.w].ptr].props IN
    /\ ret.k # "exception"
    /\ Cardinality({i \in 1..Len(props) : props[i].name = ret.a}) = 1
    /\ \A i \in 1..Len(props) : props[i].name = ret.a => props[i].value = ret.b

NamesOf(props) == {props[i].name : i \in 1..Len(props)}
Keys(map) == {map[j][1] : j \in 1..Len(map)}
NoDuplicate(props) ==
  \A i \in 1..Len(props), j \in 1..Len(props) :
    props[i].name = props[j].name => i = j

\* C8: attr({map}) sets every attribute of the map to its value, leaves the
\* other attributes with their value and all earlier attributes at their
\* place, and returns the element; an element has at most one attribute per
\* name; a name comes into the list only by being set, and attr(name) returns
\* null exactly for the names that are not in it.
C8_AttrMap ==
  /\ [](\A n \in NodeIds : NoDuplicate(nodes[n].props))
  /\ [][(ret'.op = "attrmap" /\ ret'.k = "this" /\ wrappers[ret'.w].live) =>
         LET n == wrappers[ret'.w].ptr
             old == nodes[n].props
             new == nodes'[n].props
             map == ret'.m
         IN /\ ret'.vw = ret'.w
            /\ \A j \in 1..Len(map) : \E i \in 1..Len(new) :
                 new[i].name = map[j][1] /\ new[i].value = map[j][2]
            /\ NamesOf(new) = NamesOf(old) \cup Keys(map)
            /\ Len(new) >= Len(old)
            /\ \A i \in 1..Len(old) :
                 /\ new[i].name = old[i].name
                 /\ old[i].name \notin Keys(map) => new[i].value = old[i].value]_vars
  /\ [][\A n \in NodeIds : nodes[n].st = "live" =>
          NamesOf(nodes'[n].props) \subseteq
            NamesOf(nodes[n].props) \cup
              (IF ret'.op = "attrmap" /\ wrappers[ret'.w].ptr = n
                 THEN Keys(ret'.m) ELSE {})]_vars
  /\ []((ret.op = "attr" /\ wrappers[ret.w].live) =>
          (ret.k = "null" <=>
             ret.a \notin NamesOf(nodes[wrappers[ret.w].ptr].props)))

\* attr({q: .., p: ..}) on an element that had p: p is overwritten in place
\* and q is appended.
C8_Witness ==
  /\ ret.op = "attrmap" /\ ret.k = "this"
  /\ ret.m = << <<"q", "2">>, <<"p", "2">> >>
  /\ LET props == nodes[wrappers[ret.w].ptr].props IN
     /\ Len(props) = 2
     /\ props[1].name = "p" /\ props[1].value = "2"
     /\ props[2].name = "q" /\ props[2].value = "2"

\* What text() returns for node n; "" stands for null.
TextResult(ns, n) == xmlNodeGetContent(ns, n)

\* The value with its entity references replaced.
Unescaped(value) == IF value = "&amp;" THEN "&" ELSE value

ElementsOf(ns, list) == SelectSeq(list, LAMBDA c : ns[c].type = "element")

\* A text(value) call on a live wrapper of an element of a regular tree.
TextSetStep ==
  /\ ret'.op = "settext" /\ ret'.k = "this"
  /\ wrappers[ret'.w].live
  /\ nodes[wrappers[ret'.w].ptr].type = "element"
  /\ IsTree(nodes)

\* C9 (amended): text(value) on an element frees all its children, element
\* children included, and deletes their wrappers; the element then has one
\* text child holding the unescaped value, or no child when that is empty;
\* its attributes are unchanged; a text() that follows returns the unescaped
\* value, or null when it is empty.
C9_TextReplacesAllChildren ==
  /\ [][TextSetStep =>
         LET n == wrappers[ret'.w].ptr
             old == Subtree(nodes, nodes[n].children)
             text == Unescaped(ret'.a)
             list == ChildList(nodes', n)
         IN /\ nodes'[n].props = nodes[n].props
            /\ \A c \in old : nodes'[c].st = "freed"
            /\ \A w \in Ws : wrappers[w].ptr \in old => ~wrappers'[w].live
            /\ IF text = "" THEN list = <<>>
               ELSE /\ Len(list) = 1
                    /\ nodes'[list[1]].type = "text"
                    /\ nodes'[list[1]].content = text
                    /\ list[1] \notin Allocated(nodes)
            /\ TextResult(nodes', n) = text]_vars
  /\ [][(/\ ret.op = "settext" /\ ret.k = "this" /\ Running
         /\ nodes[wrappers[ret.w].ptr].type = "element"
         /\ ret'.op = "text" /\ ret'.w = ret.w) =>
          IF Unescaped(ret.a) = "" THEN ret'.k = "null"
          ELSE ret'.k = "string" /\ ret'.vs = Unescaped(ret.a)]_vars

\* text('&amp;') on an element with an attribute has destroyed a wrapped
\* child of it.
C9_Witness ==
  /\ Running
  /\ ret.op = "settext" /\ ret.k = "this" /\ ret.a = "&amp;"
  /\ nodes[wrappers[ret.w].ptr].props # <<>>
  /\ \E w \in Ws : ~wrappers[w].live /\ wrappers[w].kind = "Element"

\* C9: text(value) leaves the element's attributes and its element children
\* as they are, and a text() that follows returns value.
C9_TextKeepsElementChildren ==
  [][TextSetStep =>
       LET n == wrappers[ret'.w].ptr IN
       /\ nodes'[n].props = nodes[n].props
       /\ ElementsOf(nodes', ChildList(nodes', n))
            = ElementsOf(nodes, ChildList(nodes, n))
       /\ \A c \in NodeIds :
            (nodes[c].type = "element" /\ nodes[c].st = "live")
              => nodes'[c].st = "live"
       /\ TextResult(nodes', n) = ret'.a]_vars

Rank(state) ==
  CASE state = "Idle" -> 0 [] state = "Parsing" -> 1 [] state = "Finalized" -> 2

\* C3: a push session only moves forward through Idle, Parsing, Finalized; a
\* push marked as the last chunk leaves it Finalized; a push on a Finalized
\* session is rejected with a usage error and dispatches no event.
C3_PushSessionStates ==
  /\ [](sax.state \in {"Idle", "Parsing", "Finalized"})
  /\ []((sax.res = "ok" /\ sax.last) => sax.state = "Finalized")
  /\ [][Rank(sax'.state) >= Rank(sax.state)]_vars
  /\ [][(sax.state = "Finalized" /\ sax'.op = "push") =>
          /\ sax'.res = "usage-error"
          /\ sax'.state = "Finalized"
          /\ sax'.dispatched = sax.dispatched
          /\ sax'.ctxt = sax.ctxt]_vars

\* A push was rejected on a session that had delivered events.
C3_Witness ==
  /\ sax.state = "Finalized" /\ sax.op = "push" /\ sax.res = "usage-error"
  /\ sax.dispatched # <<>>

\* The events with the end-of-input error put in before endDocument.
WithTerminalError(events) ==
  SubSeq(events, 1, Len(events) - 1)
    \o <<SaxEvent("error", ExtraContent)>>
    \o <<events[Len(events)]>>

RECURSIVE Nested(_, _)
Nested(events, stack) ==
  IF events = <<>> THEN stack = <<>>
  ELSE LET e == Head(events) IN
       IF e.kind = "startElementNS"
         THEN Nested(Tail(events), <<e.arg>> \o stack)
       ELSE IF e.kind = "endElementNS"
         THEN /\ stack # <<>>
              /\ Head(stack) = e.arg
              /\ Nested(Tail(events), Tail(stack))
       ELSE Nested(Tail(events), stack)

Matches(ns, n, xpath) ==
  IF xpath = "*" THEN ElementChildren(ns, n)
  ELSE IF xpath = "*[1]/*" /\ ElementChildren(ns, n) # <<>>
    THEN ElementChildren(ns, ElementChildren(ns, n)[1])
  ELSE <<>>

\* C11: find(xpathExpression) never raises.  On a live element of a regular
\* tree it returns a sequence: empty when the evaluator fails, yields a result
\* that is not a node set, or matches nothing; otherwise one wrapper per
\* matched node, in the evaluator's order.
C11_FindNeverFails ==
  (ret.op = "find" /\ wrappers[ret.w].live /\ IsTree(nodes)) =>
     /\ ret.k = "array"
     /\ Len(ret.vl) = Len(Matches(nodes, wrappers[ret.w].ptr, ret.a))
     /\ \A i \in DOMAIN ret.vl :
          wrappers[ret.vl[i]].ptr = Matches(nodes, wrappers[ret.w].ptr, ret.a)[i]

\* The element children of p that bear the name of c, in document order.
SameNamed(ns, p, c) ==
  SelectSeq(ChildList(ns, p),
            LAMBDA x : ns[x].type = "element" /\ ns[x].name = ns[c].name)

\* The step of c in a path: its name, and its 1-based position among the
\* children of its name when it is not the only one.
ExpectedStep(ns, c) ==
  LET p == ns[c].parent
      twins == IF p = NULL THEN <<c>> ELSE SameNamed(ns, p, c)
      pos == CHOOSE i \in DOMAIN twins : twins[i] = c
  IN "/" \o ns[c].name
         \o (IF Len(twins) = 1 THEN "" ELSE "[" \o ToString(pos) \o "]")

\* The steps from the topmost ancestor of c down to c.
RECURSIVE ExpectedPath(_, _, _)
ExpectedPath(ns, c, fuel) ==
  IF c = NULL \/ fuel = 0 THEN ""
  ELSE ExpectedPath(ns, ns[c].parent, fuel - 1) \o ExpectedStep(ns, c)

\* path() has just returned for a live element of a regular tree.
PathReturned ==
  /\ ret.op = "path"
  /\ Running
  /\ wrappers[ret.w].live
  /\ nodes[wrappers[ret.w].ptr].type = "element"
  /\ IsTree(nodes)

\* C12: for every element E, path() is the chain of element names from the
\* topmost ancestor to E; a step has no [n] suffix when the node at that level
\* is the only child of its name under its parent, and carries the 1-based
\* position among the same-named siblings in document order otherwise.
C12_PathOfElement ==
  PathReturned =>
    /\ ret.k = "string"
    /\ ret.vs = ExpectedPath(nodes, wrappers[ret.w].ptr, MaxNodes)

\* path() returned a path with one unnumbered and one numbered step.
C12_Witness == PathReturned /\ ret.vs = "/a/b[2]"

\* What the calls that read or hand out a node have returned: the constructor
\* a node of the name given, name() the name the node bears, children() and
\* find() the one live wrapper of each node.
NameObserved ==
  /\ (Running /\ ret.op = "new" /\ ret.k = "wrapper") =>
       nodes[wrappers[ret.vw].ptr].name = ret.a
  /\ (Running /\ ret.op = "name" /\ ret.a = "" /\ wrappers[ret.w].live) =>
       ret.k = "string" /\ ret.vs = nodes[wrappers[ret.w].ptr].name
  /\ (Running /\ ret.op \in {"children", "find"} /\ ret.k = "array") =>
       \A i \in DOMAIN ret.vl :
          WrappersOf(wrappers[ret.vl[i]].ptr, "") = {ret.vl[i]}

\* name(y) on a live wrapper of an element renames the node and changes
\* nothing else.
Renamed ==
  (/\ ret'.op = "name" /\ ret'.a # ""
   /\ ~crashed' /\ ~touchedFreed'
   /\ wrappers[ret'.w].live
   /\ nodes[wrappers[ret'.w].ptr].type = "element") =>
     /\ ret'.k = "this" /\ ret'.vw = ret'.w
     /\ nodes' = [nodes EXCEPT ![wrappers[ret'.w].ptr].name = ret'.a]
     /\ wrappers' = wrappers

\* C13: an element built with name x reports name() = x; after name(y)
\* through a wrapper of the node, name() through every wrapper of the same
\* native node, one obtained later by a lookup included, returns y, and
\* nothing else about the node changes.
C13_NameRoundTrip == [][Renamed /\ NameObserved']_vars

\* name(y) has just renamed an element that children() and find() can reach.
C13_Witness ==
  /\ ret.op = "name" /\ ret.a = "b" /\ ret.k = "this"
  /\ Running
  /\ nodes[wrappers[ret.w].ptr].name = "b"
  /\ nodes[wrappers[ret.w].ptr].parent # NULL
  /\ IsTree(nodes)

\* children() has just returned for a live element of a regular tree.
ChildrenReturned ==
  /\ ret.op = "children"
  /\ Running
  /\ wrappers[ret.w].live
  /\ IsTree(nodes)

\* C15: children() returns every direct child of the element exactly once,
\* in document order: as many entries as there are direct children (none for
\* a childless element), each the registered wrapper of its node.
C15_ChildrenOnceInOrder ==
  ChildrenReturned =>
    LET n == wrappers[ret.w].ptr IN
    /\ ret.k = "array"
    /\ Len(ret.vl) = Cardinality({c \in NodeIds :
                        nodes[c].st = "live" /\ nodes[c].parent = n})
    /\ Len(ret.vl) = Len(ChildList(nodes, n))
    /\ \A i \in DOMAIN ret.vl :
         /\ wrappers[ret.vl[i]].live
         /\ wrappers[ret.vl[i]].ptr = ChildList(nodes, n)[i]
         /\ nodes[ChildList(nodes, n)[i]].priv = ret.vl[i]

\* children() returned two children.
C15_Witness == ChildrenReturned /\ Len(ret.vl) = 2

\* Where the log records the call of the callback with w, and its return.
CallAt(w) == {i \in DOMAIN calls.log : calls.log[i] = << "call", w >>}
ReturnAt(w) == {i \in DOMAIN calls.log : calls.log[i] = << "return", w >>}

\* C14: a configure callback is invoked exactly once, synchronously, with the
\* newly built wrapper, whose node has the name, the attributes and the
\* content already, before the constructing call returns; of two nested
\* constructions the outer callback starts first and the inner one returns
\* first.
C14_CallbackOnceNested ==
  /\ \A w \in Ws :
       /\ Cardinality(CallAt(w)) <= 1
       /\ Cardinality(ReturnAt(w)) <= 1
       /\ \A j \in ReturnAt(w) : \E i \in CallAt(w) : i < j
  /\ \A u \in Ws, v \in Ws : \A i \in CallAt(u), j \in CallAt(v), k \in ReturnAt(u) :
       (i < j /\ j < k) => \E l \in ReturnAt(v) : l < k
  /\ (ret.op = "newcb" /\ ret.k = "callback") =>
       LET n == wrappers[ret.vw].ptr IN
       /\ wrappers[ret.vw].live
       /\ nodes[n].priv = ret.vw
       /\ calls.stack[Len(calls.stack)] = ret.vw
       /\ calls.log[Len(calls.log)] = << "call", ret.vw >>
       /\ nodes[n].name = ret.a
       /\ xmlNodeGetContent(nodes, n) = Unescaped(ret.b)
       /\ NamesOf(nodes[n].props) = Keys(ret.m)
       /\ \A j \in 1..Len(ret.m) : \E i \in 1..Len(nodes[n].props) :
            /\ nodes[n].props[i].name = ret.m[j][1]
            /\ nodes[n].props[i].value = ret.m[j][2]
  /\ (ret.op = "newcb" /\ ret.k = "wrapper") =>
       /\ Cardinality(CallAt(ret.vw)) = 1
       /\ calls.log[Len(calls.log)] = << "return", ret.vw >>
       /\ ret.vw \notin {calls.stack[i] : i \in DOMAIN calls.stack}

\* An inner construction, with attributes and content, has returned inside
\* the callback of an outer one, which is still running.
C14_Witness ==
  /\ Running
  /\ ret.op = "newcb" /\ ret.k = "wrapper"
  /\ Len(calls.stack) = 1
  /\ \E i \in CallAt(calls.stack[1]) : \E j \in CallAt(ret.vw) : i < j
  /\ nodes[wrappers[ret.vw].ptr].props # <<>>
  /\ nodes[wrappers[ret.vw].ptr].children # NULL

\* The engine has just notified the destruction of the next node of a free,
\* and no freed memory was read.
Notified ==
  /\ document.st = "freeing"
  /\ document.pending # <<>>
  /\ document'.pending = Tail(document.pending)
  /\ ~touchedFreed'

\* The _private slot of a notified node <<n, i>>, in a document record d and
\* a node table ns.
SlotOf(d, ns, n, i) ==
  IF n = NULL THEN d.priv
  ELSE IF i = 0 THEN ns[n].priv
  ELSE ns[n].props[i].priv

\* After any notification the slot of the notified node is empty and the
\* wrapper it held is invalid.
SlotEmptied ==
  Notified =>
    LET n == Head(document.pending)[1]
        i == Head(document.pending)[2]
        w == SlotOf(document, nodes, n, i)
    IN /\ SlotOf(document', nodes', n, i) = NULL
       /\ w # NULL => ~wrappers'[w].live

\* A notification changes no other slot and no other wrapper.
OthersKept ==
  Notified =>
    LET n == Head(document.pending)[1]
        i == Head(document.pending)[2]
        w == SlotOf(document, nodes, n, i)
    IN /\ \A v \in Ws : v # w => wrappers'[v] = wrappers[v]
       /\ n # NULL => document'.priv = document.priv
       /\ \A m \in NodeIds :
            /\ (m # n \/ i # 0) => nodes'[m].priv = nodes[m].priv
            /\ \A j \in 1..Len(nodes[m].props) :
                 (m # n \/ i # j) => nodes'[m].props[j].priv = nodes[m].props[j].priv

\* When the last notification of a free has been made, the slot of the
\* document and the slots of all nodes and attributes of its tree are empty
\* and no live wrapper is left on any of them.
TreeInvalidated ==
  (document.st = "freeing" /\ document.pending = <<>> /\ Running) =>
     /\ document.priv = NULL
     /\ \A w \in Ws : wrappers[w].kind = "Document" => ~wrappers[w].live
     /\ \A n \in document.freeing :
          /\ nodes[n].priv = NULL
          /\ \A j \in 1..Len(nodes[n].props) : nodes[n].props[j].priv = NULL
          /\ \A w \in Ws : (wrappers[w].live /\ wrappers[w].kind # "Document")
                              => wrappers[w].ptr # n

\* C16 (as the code has it): when the engine frees a document it notifies the
\* destruction of the document node and of every node and attribute of the
\* tree, one notification each; a notification empties the slot of its own
\* node and invalidates the wrapper it held, and touches no other; when the
\* last one returns all these slots are empty and all these wrappers invalid,
\* and no host call runs from the first notification to the last.
C16_NotificationPerNode ==
  [][/\ SlotEmptied
     /\ OthersKept
     /\ TreeInvalidated'
     /\ document.st = "freeing" => ret' = ret]_vars

\* C16 (as stated): the notification of the document node empties the slot of
\* the document and the slots of all its descendants and invalidates their
\* wrappers within that same notification; after any notification the slot of
\* the notified node is empty.
C16_DocumentNotificationClearsTree ==
  [][/\ SlotEmptied
     /\ (Notified /\ Head(document.pending)[1] = NULL) =>
          /\ document'.priv = NULL
          /\ \A n \in document.freeing :
               /\ nodes'[n].priv = NULL
               /\ \A j \in 1..Len(nodes'[n].props) : nodes'[n].props[j].priv = NULL
               /\ \A w \in Ws : wrappers'[w].live => wrappers'[w].ptr # n]_vars

\* The last notification of a free has been made: the document, its root and
\* a node or attribute below it had wrappers, all invalid now.
C16_Witness ==
  /\ Running
  /\ document.st = "freeing" /\ document.pending = <<>>
  /\ document.children # NULL
  /\ \A w \in Ws : ~wrappers[w].live
  /\ \E w \in Ws : wrappers[w].kind = "Document"
  /\ \E w \in ElementWs : wrappers[w].ptr = document.children
  /\ \E w \in Ws :
       /\ wrappers[w].ptr \in document.freeing
       /\ wrappers[w].kind = "Attribute" \/ wrappers[w].ptr # document.children


====
